---- MODULE Spec2Model ----
(***************************************************************************)
(* Model of main.py: the batch download / extract / distribute pipeline    *)
(* (Worker.run), the batch runner (DownloaderApp.start_processing,         *)
(* cleanup_worker, on_worker_finished, on_worker_error), the order queue,  *)
(* the settings dialog, the catalog listing (fetch_files) and the overlay  *)
(* applier (insert_online_fix).                                            *)
(*                                                                         *)
(* One interactive (main) thread runs the UI handlers and the queued       *)
(* signal slots; every submitted batch runs Worker.run in a thread of its  *)
(* own.  A worker step is one blocking call of Worker.run (network         *)
(* request, file write, extraction, ...), so the steps of different        *)
(* workers and the handlers of the main thread interleave.                 *)
(***************************************************************************)
EXTENDS Integers, Sequences, FiniteSets, TLC

\* ------------------------------------------------------------------ bounds
\* Number of batches (Worker objects) ever submitted in one behaviour.
MaxBatches == 2
\* Number of item names ever queued or submitted in one behaviour.
MaxTotalItems == 2
\* Number of times the settings dialog is accepted in one behaviour.
MaxOpens == 1

Batches == 1..MaxBatches

\* --------------------------------------------------------------- constants
ERR_INVALID_STEAM == "Invalid steam location is specified in settings!"
ERR_FAILED_DOWNLOAD == "Failed to download!"

\* A name is the sequence of its parts, "a.zip" = <<"a", ".zip">>; a file
\* name is <<stem, suffix>>.
NameA == <<"a", ".zip">>
NameB == <<"b", ".zip">>
\* The entries the list widget can hold (DownloaderApp.files).
Names == {NameA, NameB}

\* The settings dialog's steam_path values: empty, an installation that
\* holds steam.exe, and a directory that does not.
SteamRoot == "C:/Steam"
OtherDir == "D:/Games"
Paths == {"", SteamRoot, OtherDir}

\* os.path.exists(os.path.join(p, 'steam.exe')): the file system's answer.
HasSteamExe(p) == p = SteamRoot

\* The archive the catalog serves for a name: file name -> content.  Both
\* archives hold a file named app.manifest, with different contents.
Catalog(name) ==
    IF name = NameA
    THEN (<<"app", ".manifest">> :> 1) @@ (<<"a", ".lua">> :> 2)
           @@ (<<"readme", ".txt">> :> 3)
    ELSE (<<"app", ".manifest">> :> 4) @@ (<<"b", ".lua">> :> 5)

\* ------------------------------------------------------------ pure helpers
\* str.endswith(suffix)
EndsWith(f, suffix) == f[Len(f)] = suffix

\* f.endswith('.manifest'); and a test every file passes.
IsManifestAny(f) == TRUE
IsManifest(f) == EndsWith(f, ".manifest")

\* f.endswith('.lua'); and the test with another suffix in its place.
IsLuaWrongSuffix(f) == EndsWith(f, ".txt")
IsLua(f) == EndsWith(f, ".lua")

\* name.replace('.zip', ''): every occurrence of the part is removed.
ScratchDirOf(name) == SelectSeq(name, LAMBDA part : part # ".zip")

ScratchDirs == {ScratchDirOf(n) : n \in Names}

\* A directory: whether it exists, and its files (file name -> content).
NoFiles == [f \in {} |-> 0]
AbsentDir == [exists |-> FALSE, files |-> NoFiles]
EmptyDir == [exists |-> TRUE, files |-> NoFiles]

\* Writing the files of `new` into a directory holding `old`: a file of the
\* same name is overwritten, the others stay.
Overwrite(old, new) ==
    [f \in (DOMAIN old) \cup (DOMAIN new) |->
        IF f \in DOMAIN new THEN new[f] ELSE old[f]]

\* os.makedirs(d, exist_ok=True)
MakeDirs(dir) == IF dir.exists THEN dir ELSE EmptyDir

\* The root check of Worker.run: not steam_path or not exists(steam.exe)
\* rejects; and the check with the steam.exe test left out.
RootIsValidNonEmptyOnly(p) == p # ""
RootIsValid(p) == p # "" /\ HasSteamExe(p)

\* resp.status_code != 200 ends the run; and a run that goes on whatever
\* the status.
StatusAbortsNever(status) == FALSE
StatusAborts(status) == status # 200

\* for name in self.items: the item of the i-th iteration; and the
\* iteration from the last item to the first.
ItemAtReversed(its, i) == its[Len(its) + 1 - i]
ItemAt(its, i) == its[i]

\* finished.emit stands after the for loop: it runs once item i of n is
\* through and the loop has ended.  The variants: the emit inside the loop
\* body, and no emit at all.
EmitsFinishedInsideLoop(i, n) == TRUE
EmitsFinishedNever(i, n) == FALSE
EmitsFinishedAfterItem(i, n) == i = n

\* The slots connected to Worker.finished and Worker.error, in connection
\* order; an emit queues a call of each on the main thread, in this order.
\* ErrorSlotsNoCleanup is Worker.error without its second connection.
FinishedSlots(w, msg) ==
    << [slot |-> "on_worker_finished", w |-> w, msg |-> msg],
       [slot |-> "cleanup_worker", w |-> w, msg |-> msg] >>

ErrorSlotsNoCleanup(w, msg) ==
    << [slot |-> "on_worker_error", w |-> w, msg |-> msg] >>
\* Worker.error connected to on_worker_finished.
ErrorSlotsAsFinished(w, msg) ==
    << [slot |-> "on_worker_finished", w |-> w, msg |-> msg],
       [slot |-> "cleanup_worker", w |-> w, msg |-> msg] >>
ErrorSlots(w, msg) ==
    << [slot |-> "on_worker_error", w |-> w, msg |-> msg],
       [slot |-> "cleanup_worker", w |-> w, msg |-> msg] >>

SlotsOf(sig, w, msg) ==
    IF sig = "finished" THEN FinishedSlots(w, msg) ELSE ErrorSlots(w, msg)

\* if worker in self.workers: self.workers.remove(worker)
CleanupWorker(ws, w) == SelectSeq(ws, LAMBDA x : x # w)

\* worker.start(): run() executes in a thread of its own ("thread"); a call
\* of worker.run() would execute it in the caller ("inline").
StartModeInline == "inline"
StartMode == "thread"

\* ------------------------------------------------------------------- state
VARIABLES
    settings_values,  \* DownloaderApp.settings_values (one dict, shared)
    opens,            \* times the settings dialog was accepted
    order,            \* DownloaderApp.order
    workers,          \* DownloaderApp.workers
    nextWorker,       \* the next Worker to be constructed
    events,           \* slot calls queued on the main thread
    shown,            \* per worker: the message box its outcome raised
    trail,            \* the add_to_order calls and the origin of each batch,
                      \* recorded in the behaviours that start with the
                      \* record switched on
    items,            \* Worker.items
    submitted,        \* per worker: settings_values at start_processing
    pc,               \* per worker: position in Worker.run
    idx,              \* per worker: index of the item being processed
    steam_path,       \* per worker: the local steam_path of run()
    resp,             \* per worker: resp.status_code of the last download
    outcome,          \* per worker: the signal last emitted
    emitted,          \* per worker: emits of finished and of error
    requested,        \* per worker: the requests.get calls made
    saved,            \* per worker: the items whose archive it wrote
    fsWrites,         \* per worker: file-system changing steps carried out
    delReads,         \* per worker and item: delete_after as read, and
                      \* whether the rmtree it led to raised
    skipped,          \* per worker: files whose copy2 raised
    solo,             \* per worker: no other worker ran during its run
    valid,            \* per worker: every download so far returned status
                      \* 200 and an archive
    zip,              \* Local Cache: the archive file of each name
    scratch,          \* Local Cache: the extraction directory of each name
    dest,             \* <root>/config/depotcache and <root>/config/stplug-in
    added,            \* DownloaderApp.added
    state_file,       \* STATE_FILE as last written by save_state
    post,             \* per worker: the post-success effects it caused
    has_toast,        \* _HAS_TOAST
    listing,          \* the entries the catalog API returns
    files,            \* DownloaderApp.files
    fetchMsg,         \* fetch_files: "" before, then "done" or "error"
    target,           \* insert_online_fix: the chosen game folder
    fix_src,          \* ONLINE_FIX_DIR
    fixMsg,           \* insert_online_fix: the message box it last raised
    data_folder,      \* insert_online_fix: the data folder it last found
    fixSkipped,       \* insert_online_fix: Data files whose copy2 raised
    applies           \* times insert_online_fix ran

uiVars == <<settings_values, opens, order, workers, nextWorker, events, shown,
            trail>>
workerVars == <<items, submitted, pc, idx, steam_path, resp, outcome, emitted,
                requested, saved, fsWrites, delReads, skipped, solo, valid>>
fsVars == <<zip, scratch, dest>>
postVars == <<added, state_file, post, has_toast>>
catalogVars == <<listing, files, fetchMsg>>
overlayVars == <<target, fix_src, fixMsg, data_folder, fixSkipped, applies>>
vars == <<uiVars, workerVars, fsVars, postVars, catalogVars, overlayVars>>

NoOutcome == [sig |-> "none", text |-> "", cause |-> ""]
NoSettings == [steam_path |-> "", delete_after |-> FALSE,
               win_notify |-> FALSE, restart_steam |-> FALSE]
NoPost == [toast |-> FALSE, kill |-> FALSE, launch |-> FALSE]
\* The record of the queue's use: switched off, and empty.
NoTrail == [on |-> FALSE, queued |-> <<>>, origin |-> [b \in Batches |-> ""]]
NewTrail == [on |-> TRUE, queued |-> <<>>, origin |-> [b \in Batches |-> ""]]

\* A directory tree: the paths of its directories and of its files (path ->
\* content), relative to its root; a path is the sequence of its names.
NoTree == [exists |-> FALSE, dirs |-> {}, files |-> NoFiles]

\* The settings the state file may hold: any root and delete_after, with
\* the post-success options at load_state's defaults (InstallSettings); and
\* those of them with a valid root and delete_after off (PostSettings).
InstallSettings ==
    [steam_path : Paths, delete_after : BOOLEAN,
     win_notify : {FALSE}, restart_steam : {FALSE}]
PostSettings ==
    [steam_path : {SteamRoot}, delete_after : {FALSE},
     win_notify : {FALSE}, restart_steam : {FALSE}]

\* DownloaderApp.__init__ with the settings of the state file in S and
\* win10toast importable or not (T): nothing queued, no worker, an empty
\* Local Cache.  R holds the initial record of the queue's use.
MainInit(S, T, R) ==
    /\ settings_values \in S
    /\ trail \in R
    /\ has_toast \in T
    /\ added = <<>>
    /\ state_file = [settings |-> settings_values, added |-> added]
    /\ post = [b \in Batches |-> NoPost]
    /\ valid = [b \in Batches |-> TRUE]
    /\ opens = 0
    /\ order = <<>>
    /\ workers = <<>>
    /\ nextWorker = 1
    /\ events = <<>>
    /\ shown = [b \in Batches |-> ""]
    /\ items = [b \in Batches |-> <<>>]
    /\ submitted = [b \in Batches |-> NoSettings]
    /\ pc = [b \in Batches |-> "idle"]
    /\ idx = [b \in Batches |-> 0]
    /\ steam_path = [b \in Batches |-> ""]
    /\ resp = [b \in Batches |-> 0]
    /\ outcome = [b \in Batches |-> NoOutcome]
    /\ emitted = [b \in Batches |-> [finished |-> 0, error |-> 0]]
    /\ requested = [b \in Batches |-> <<>>]
    /\ saved = [b \in Batches |-> {}]
    /\ fsWrites = [b \in Batches |-> 0]
    /\ delReads = [b \in Batches |-> <<>>]
    /\ skipped = [b \in Batches |-> {}]
    /\ solo = [b \in Batches |-> TRUE]
    /\ zip = [n \in Names |-> "none"]
    /\ scratch = [d \in ScratchDirs |-> AbsentDir]
    /\ dest = [depotcache |-> AbsentDir, stplugin |-> AbsentDir]

\* fetch_files has filled the list widget with the catalog's two archives.
CatalogLoaded ==
    /\ listing = <<NameA, NameB>>
    /\ files = <<NameA, NameB>>
    /\ fetchMsg = "done"

\* insert_online_fix has not been used.
OverlayIdle ==
    /\ target = NoTree
    /\ fix_src = NoTree
    /\ fixMsg = ""
    /\ data_folder = <<>>
    /\ fixSkipped = {}
    /\ applies = 0

\* The state after construction.
Init ==
    /\ MainInit(InstallSettings, {TRUE}, {NoTrail})
    /\ CatalogLoaded
    /\ OverlayIdle

Running(b) == pc[b] \notin {"idle", "done"}

\* Items queued or submitted so far.
TotalItems ==
    LET RECURSIVE Sum(_)
        Sum(b) == IF b = 0 THEN 0 ELSE Len(items[b]) + Sum(b - 1)
    IN Len(order) + Sum(MaxBatches)

\* The main thread is free to run a handler: with run() in a thread of its
\* own no running worker occupies it.
MainThreadFree == StartMode = "thread" \/ \A b \in Batches : ~Running(b)

\* ------------------------------------------------------- DownloaderApp (UI)
\* start_processing(its): a Worker on the shared settings dict, appended to
\* workers and started.
StartProcessing(its) ==
    LET w == nextWorker IN
    /\ nextWorker <= MaxBatches
    /\ items' = [items EXCEPT ![w] = its]
    /\ submitted' = [submitted EXCEPT ![w] = settings_values]
    /\ workers' = Append(workers, w)
    /\ nextWorker' = nextWorker + 1
    /\ pc' = [pc EXCEPT ![w] = "start"]
    /\ solo' = [b \in Batches |->
                  IF b = w THEN \A c \in Batches : ~Running(c)
                  ELSE IF Running(b) THEN FALSE ELSE solo[b]]
    /\ UNCHANGED <<settings_values, opens, events, shown, idx, steam_path,
                   resp, outcome, emitted, requested, saved, fsWrites,
                   delReads, skipped, valid, fsVars, postVars, catalogVars,
                   overlayVars>>

\* The record of the queue's use after a batch was submitted by handler h,
\* and after name was queued.
TrailOfBatch(h) ==
    IF trail.on THEN [trail EXCEPT !.origin[nextWorker] = h] ELSE trail
TrailOfQueued(name) ==
    IF trail.on THEN [trail EXCEPT !.queued = Append(@, name)] ELSE trail

\* add_now with the list widget's current item.
AddNow ==
    /\ MainThreadFree
    /\ TotalItems < MaxTotalItems
    /\ \E name \in Names : StartProcessing(<<name>>)
    /\ trail' = TrailOfBatch("add_now")
    /\ UNCHANGED order

\* add_to_order with the list widget's current item.
AddToOrder ==
    /\ MainThreadFree
    /\ TotalItems < MaxTotalItems
    /\ \E name \in Names : /\ order' = Append(order, name)
                           /\ trail' = TrailOfQueued(name)
    /\ UNCHANGED <<settings_values, opens, workers, nextWorker, events, shown,
                   workerVars, fsVars, postVars, catalogVars, overlayVars>>

\* start_order without the order.clear() of line 323.
StartOrderKeepsQueue ==
    /\ MainThreadFree
    /\ IF order = <<>>
       THEN UNCHANGED vars
       ELSE /\ StartProcessing(order)
            /\ trail' = TrailOfBatch("start_order")
            /\ order' = order

\* start_order: a warning on an empty queue, else the queue is copied,
\* cleared and submitted.
StartOrder ==
    /\ MainThreadFree
    /\ IF order = <<>>
       THEN UNCHANGED vars
       ELSE /\ StartProcessing(order)
            /\ trail' = TrailOfBatch("start_order")
            /\ order' = <<>>

\* save_all_state: the settings and the history list are written to the
\* state file.
SaveAllState(settings) == [settings |-> settings, added |-> added]

\* open_settings with the dialog accepted with the fields p, d, n, r: they
\* are written into the shared dict, and the state is saved.
AcceptSettings(p, d, n, r) ==
    /\ MainThreadFree
    /\ opens < MaxOpens
    /\ opens' = opens + 1
    /\ settings_values' = [steam_path |-> p, delete_after |-> d,
                           win_notify |-> n, restart_steam |-> r]
    /\ state_file' = SaveAllState(settings_values')
    /\ UNCHANGED <<order, workers, nextWorker, events, shown, trail,
                   workerVars, fsVars, added, post, has_toast, catalogVars,
                   overlayVars>>

\* The dialog opens with the current settings; the user edits the root and
\* delete_after ...
OpenSettings ==
    \E p \in Paths, d \in BOOLEAN :
        AcceptSettings(p, d, settings_values.win_notify,
                       settings_values.restart_steam)

\* ... or the two post-success options.
OpenSettingsPost ==
    \E n \in BOOLEAN, r \in BOOLEAN :
        AcceptSettings(settings_values.steam_path,
                       settings_values.delete_after, n, r)

\* on_worker_finished after its message box: the toast if win_notify is
\* set and win10toast was imported; if restart_steam is set, taskkill and
\* the relaunch of steam.exe where it exists.
PostEffects ==
    [toast |-> settings_values.win_notify /\ has_toast,
     kill |-> settings_values.restart_steam,
     launch |-> settings_values.restart_steam
                  /\ HasSteamExe(settings_values.steam_path)]

\* The main thread's event loop runs the next queued slot:
\* on_worker_finished shows the message, causes the post-success effects
\* and saves the state; on_worker_error shows the message; cleanup_worker
\* removes the worker from workers.
ProcessEvent ==
    /\ MainThreadFree
    /\ events # <<>>
    /\ LET e == Head(events) IN
         /\ events' = Tail(events)
         /\ IF e.slot = "cleanup_worker"
            THEN /\ workers' = CleanupWorker(workers, e.w)
                 /\ UNCHANGED <<shown, post, state_file>>
            ELSE /\ shown' = [shown EXCEPT ![e.w] = e.msg]
                 /\ IF e.slot = "on_worker_finished"
                    THEN /\ post' = [post EXCEPT ![e.w] = PostEffects]
                         /\ state_file' = SaveAllState(settings_values)
                    ELSE UNCHANGED <<post, state_file>>
                 /\ UNCHANGED workers
    /\ UNCHANGED <<settings_values, opens, order, nextWorker, trail,
                   workerVars, fsVars, added, has_toast, catalogVars,
                   overlayVars>>

\* --------------------------------------------------------------- Worker.run
emitVars == <<outcome, emitted, events>>
mainVars == <<settings_values, opens, order, workers, nextWorker, shown,
              trail, postVars, catalogVars, overlayVars>>
ownVars == <<items, submitted, solo>>

\* signal.emit(message): the signal's slots are queued on the main thread.
Emit(b, sig, text, cause) ==
    /\ emitted' = [emitted EXCEPT ![b][sig] = @ + 1]
    /\ outcome' = [outcome EXCEPT ![b] = [sig |-> sig, text |-> text,
                                          cause |-> cause]]
    /\ events' = events \o SlotsOf(sig, b, text)

\* An exception inside the try block: except Exception as e: error.emit.
Raise(b, cause) ==
    /\ Emit(b, "error", "Error: ", cause)
    /\ pc' = [pc EXCEPT ![b] = "done"]

\* Lines 130-133: the root is read from the settings and checked.
Start(b) ==
    /\ pc[b] = "start"
    /\ steam_path' = [steam_path EXCEPT ![b] = settings_values.steam_path]
    /\ IF RootIsValid(settings_values.steam_path)
       THEN /\ pc' = [pc EXCEPT ![b] = "download"]
            /\ idx' = [idx EXCEPT ![b] = 1]
            /\ UNCHANGED emitVars
       ELSE /\ Emit(b, "error", ERR_INVALID_STEAM, "")
            /\ pc' = [pc EXCEPT ![b] = "done"]
            /\ UNCHANGED idx
    /\ UNCHANGED <<mainVars, ownVars, resp, requested, saved, fsWrites,
                   delReads, skipped, valid, fsVars>>

\* Lines 138-147: requests.get(url); on status 200 the body is written to
\* CACHE_DIR/name.  The request returns a status and a body (an archive, or
\* bytes that are no archive), raises, or never returns.
Download(b) ==
    LET name == ItemAt(items[b], idx[b]) IN
    /\ pc[b] = "download"
    /\ requested' = [requested EXCEPT ![b] = Append(@, <<idx[b], name>>)]
    /\ \/ \E status \in {200, 404}, content \in {"ok", "bad"} :
            \* the body of a refusal is no archive
            /\ status = 200 \/ content = "bad"
            /\ resp' = [resp EXCEPT ![b] = status]
            /\ valid' = [valid EXCEPT
                           ![b] = @ /\ status = 200 /\ content = "ok"]
            /\ IF StatusAborts(status)
               THEN /\ Emit(b, "error", ERR_FAILED_DOWNLOAD, "")
                    /\ pc' = [pc EXCEPT ![b] = "done"]
                    /\ UNCHANGED <<zip, saved, fsWrites>>
               ELSE /\ zip' = [zip EXCEPT ![name] = content]
                    /\ saved' = [saved EXCEPT ![b] = @ \cup {idx[b]}]
                    /\ fsWrites' = [fsWrites EXCEPT ![b] = @ + 1]
                    /\ pc' = [pc EXCEPT ![b] = "extract"]
                    /\ UNCHANGED emitVars
       \/ /\ Raise(b, "ConnectionError")
          /\ valid' = [valid EXCEPT ![b] = FALSE]
          /\ UNCHANGED <<resp, zip, saved, fsWrites>>
       \/ /\ pc' = [pc EXCEPT ![b] = "hung"]
          /\ UNCHANGED <<resp, zip, saved, fsWrites, emitVars, valid>>
    /\ UNCHANGED <<mainVars, ownVars, idx, steam_path, delReads, skipped,
                   scratch, dest>>

\* Lines 150-153: the scratch directory is made, the archive opened and
\* extracted into it.
Extract(b) ==
    LET name == ItemAt(items[b], idx[b])
        dir == ScratchDirOf(name)
        made == MakeDirs(scratch[dir])
    IN
    /\ pc[b] = "extract"
    /\ fsWrites' = [fsWrites EXCEPT ![b] = @ + 1]
    /\ IF zip[name] = "ok"
       THEN /\ scratch' = [scratch EXCEPT
                             ![dir] = [exists |-> TRUE,
                                       files |-> Overwrite(made.files,
                                                           Catalog(name))]]
            /\ pc' = [pc EXCEPT ![b] = "rmzip"]
            /\ UNCHANGED emitVars
       ELSE /\ scratch' = [scratch EXCEPT ![dir] = made]
            /\ Raise(b, IF zip[name] = "none" THEN "FileNotFoundError"
                        ELSE "BadZipFile")
    /\ UNCHANGED <<mainVars, ownVars, idx, steam_path, resp, requested, saved,
                   delReads, skipped, valid, zip, dest>>

\* Lines 156-159: os.remove(dest_path), a failure is passed over.
RemoveZip(b) ==
    /\ pc[b] = "rmzip"
    /\ \/ /\ zip' = [zip EXCEPT ![ItemAt(items[b], idx[b])] = "none"]
          /\ fsWrites' = [fsWrites EXCEPT ![b] = @ + 1]
       \/ UNCHANGED <<zip, fsWrites>>
    /\ pc' = [pc EXCEPT ![b] = "distribute"]
    /\ UNCHANGED <<mainVars, ownVars, emitVars, idx, steam_path, resp,
                   requested, saved, delReads, skipped, valid, scratch, dest>>

\* The distribution step with the try/except around copy2 left out: the
\* first copy that fails raises out of the loop.
DistributeCopyRaises(b) ==
    /\ pc[b] = "distribute"
    /\ Raise(b, "CopyError")
    /\ skipped' = [skipped EXCEPT ![b] = @ \cup {<<"app", ".manifest">>}]
    /\ UNCHANGED <<mainVars, ownVars, idx, steam_path, resp, requested, saved,
                   fsWrites, delReads, valid, zip, scratch, dest>>

\* Lines 162-178: the two destination directories are made, the scratch
\* directory is walked and every .manifest / .lua file is copied; a copy
\* that raises is passed over.
Distribute(b) ==
    LET dir == ScratchDirOf(ItemAt(items[b], idx[b]))
        found == IF scratch[dir].exists THEN DOMAIN scratch[dir].files ELSE {}
        manifests == {f \in found : IsManifest(f)}
        luas == {f \in found : IsLua(f)}
    IN
    /\ pc[b] = "distribute"
    /\ \/ \E failed \in SUBSET (manifests \cup luas) :
            /\ dest' =
                 [depotcache |->
                    [exists |-> TRUE,
                     files |-> Overwrite(dest.depotcache.files,
                                 [f \in manifests \ failed |->
                                    scratch[dir].files[f]])],
                  stplugin |->
                    [exists |-> TRUE,
                     files |-> Overwrite(dest.stplugin.files,
                                 [f \in luas \ failed |->
                                    scratch[dir].files[f]])]]
            /\ skipped' = [skipped EXCEPT ![b] = @ \cup failed]
            /\ fsWrites' = [fsWrites EXCEPT ![b] = @ + 1]
            /\ pc' = [pc EXCEPT ![b] = "cleanup"]
            /\ UNCHANGED emitVars
       \/ /\ Raise(b, "OSError")
          /\ UNCHANGED <<dest, skipped, fsWrites>>
    /\ UNCHANGED <<mainVars, ownVars, idx, steam_path, resp, requested, saved,
                   delReads, valid, zip, scratch>>

\* Lines 181-188: delete_after is read from the settings; if set, the
\* scratch directory is removed (a failure is passed over).  Then the next
\* item, or finished.emit after the last.
Cleanup(b) ==
    LET dir == ScratchDirOf(ItemAt(items[b], idx[b]))
        n == Len(items[b])
    IN
    /\ pc[b] = "cleanup"
    /\ \E raised \in BOOLEAN :
          /\ raised => settings_values.delete_after
          /\ delReads' = [delReads EXCEPT
                            ![b] = Append(@, [read |->
                                                settings_values.delete_after,
                                              raised |-> raised])]
          /\ IF settings_values.delete_after /\ ~raised
             THEN /\ scratch' = [scratch EXCEPT ![dir] = AbsentDir]
                  /\ fsWrites' = [fsWrites EXCEPT ![b] = @ + 1]
             ELSE UNCHANGED <<scratch, fsWrites>>
    /\ IF EmitsFinishedAfterItem(idx[b], n)
       THEN Emit(b, "finished", "Done!", "")
       ELSE UNCHANGED emitVars
    /\ IF idx[b] < n
       THEN /\ idx' = [idx EXCEPT ![b] = @ + 1]
            /\ pc' = [pc EXCEPT ![b] = "download"]
       ELSE /\ pc' = [pc EXCEPT ![b] = "done"]
            /\ UNCHANGED idx
    /\ UNCHANGED <<mainVars, ownVars, steam_path, resp, requested, saved,
                   skipped, valid, zip, dest>>

WorkerStep(b) ==
    \/ Start(b)
    \/ Download(b)
    \/ Extract(b)
    \/ RemoveZip(b)
    \/ Distribute(b)
    \/ Cleanup(b)

Next ==
    \/ AddNow
    \/ AddToOrder
    \/ StartOrder
    \/ OpenSettings
    \/ ProcessEvent
    \/ \E b \in Batches : WorkerStep(b)

Spec == Init /\ [][Next]_vars

\* ------------------------------------------------------------------ claims
Emits(b) == emitted[b].finished + emitted[b].error

Range(seq) == {seq[i] : i \in DOMAIN seq}

\* C1: Worker.run emits exactly one outcome signal per batch: never more
\* than one emit in total (so never both signals, never one twice), and a
\* run that has returned has emitted exactly one, whose kind is the outcome.
C1_ExactlyOneOutcome ==
    \A b \in Batches :
        /\ Emits(b) <= 1
        /\ pc[b] = "done" =>
             /\ Emits(b) = 1
             /\ outcome[b].sig \in {"finished", "error"}
             /\ emitted[b][outcome[b].sig] = 1

\* C1 witness: two batches have returned, one through finished.emit, one
\* through the except branch.
C1_Witness ==
    \E b, c \in Batches :
        /\ pc[b] = "done" /\ emitted[b].finished = 1
        /\ pc[c] = "done" /\ emitted[c].error = 1 /\ outcome[c].cause # ""

\* C2: a run that found its root empty or without steam.exe has ended with
\* the invalid-root error, having made no request and no file-system write.
C2_InvalidRootNoEffects ==
    \A b \in Batches :
        (/\ pc[b] \notin {"idle", "start"}
         /\ (steam_path[b] = "" \/ ~HasSteamExe(steam_path[b])))
        => /\ pc[b] = "done"
           /\ outcome[b].sig = "error"
           /\ outcome[b].text = ERR_INVALID_STEAM
           /\ requested[b] = <<>>
           /\ saved[b] = {}
           /\ fsWrites[b] = 0

\* C2 witness: one run ended on an empty root, another on a directory
\* without steam.exe.
C2_Witness ==
    \E b, c \in Batches :
        /\ pc[b] = "done" /\ steam_path[b] = ""
        /\ outcome[b].text = ERR_INVALID_STEAM
        /\ pc[c] = "done" /\ steam_path[c] = OtherDir
        /\ outcome[c].text = ERR_INVALID_STEAM

\* A file of an archive sits in the destination directory of its suffix
\* (.manifest in depotcache, .lua in stplug-in) of the file system fs.
Present(fs, f) ==
    /\ EndsWith(f, ".manifest") => f \in DOMAIN fs.depotcache.files
    /\ EndsWith(f, ".lua") => f \in DOMAIN fs.stplugin.files

\* ... and holds the content c there.
PresentWith(fs, f, c) ==
    /\ EndsWith(f, ".manifest") =>
         f \in DOMAIN fs.depotcache.files /\ fs.depotcache.files[f] = c
    /\ EndsWith(f, ".lua") =>
         f \in DOMAIN fs.stplugin.files /\ fs.stplugin.files[f] = c

\* The download of item idx[b] returned a status other than 200.
DownloadRefused(b) == resp[b] \notin {0, 200}

\* C3 as stated: once the download of item k = idx[b] has returned a non-200
\* status, the outcome is the download failure, every .manifest and .lua
\* file of items 1..k-1 is in its destination directory, the archives
\* written are exactly those of items 1..k-1 and exactly k requests were
\* made.
C3_Original ==
    \A b \in Batches :
        DownloadRefused(b) =>
            /\ pc[b] = "done"
            /\ outcome[b].text = ERR_FAILED_DOWNLOAD
            /\ \A j \in 1..(idx[b] - 1) :
                 \A f \in DOMAIN Catalog(items[b][j]) : Present(dest, f)
            /\ saved[b] = 1..(idx[b] - 1)
            /\ Len(requested[b]) = idx[b]

\* C3 as amended: the same, but items 1..k-1 have gone through the
\* distribution step, which leaves out a file whose copy raised: with no
\* other batch running during the run, every .manifest and .lua file of
\* items 1..k-1 is in its destination directory or is one whose copy failed.
C3_FailedDownloadPrefix ==
    \A b \in Batches :
        DownloadRefused(b) =>
            /\ pc[b] = "done"
            /\ outcome[b].text = ERR_FAILED_DOWNLOAD
            /\ Len(delReads[b]) = idx[b] - 1
            /\ solo[b] =>
                 \A j \in 1..(idx[b] - 1) :
                   \A f \in DOMAIN Catalog(items[b][j]) :
                     f \in skipped[b] \/ Present(dest, f)
            /\ saved[b] = 1..(idx[b] - 1)
            /\ Len(requested[b]) = idx[b]

\* C3 witness: the second download of a batch was refused after the first
\* item's files were all distributed.
C3_Witness ==
    \E b \in Batches :
        /\ DownloadRefused(b) /\ idx[b] = 2 /\ pc[b] = "done"
        /\ skipped[b] = {}
        /\ \A f \in DOMAIN Catalog(items[b][1]) : Present(dest, f)

\* finished.emit of a one-item batch happens in this step.
SucceedsNow(b) ==
    /\ Len(items[b]) = 1
    /\ Emits(b) = 0
    /\ emitted'[b].finished = 1

\* C4 as stated: when a one-item batch emits finished, the .manifest file
\* and the .lua file of its archive are in depotcache and stplug-in with the
\* archive's content.
C4_Original ==
    [][\A b \in Batches :
          SucceedsNow(b) =>
            \A f \in DOMAIN Catalog(items[b][1]) :
              PresentWith(dest', f, Catalog(items[b][1])[f])]_vars

\* C4 as amended: when a one-item batch that ran with no other batch
\* running emits finished, each of the two files is in its destination
\* directory with the archive's content, or is one whose copy failed.
C4_SuccessDistributes ==
    [][\A b \in Batches :
          (SucceedsNow(b) /\ solo[b]) =>
            \A f \in DOMAIN Catalog(items[b][1]) :
              \/ f \in skipped'[b]
              \/ PresentWith(dest', f, Catalog(items[b][1])[f])]_vars

\* C4 witness: a lone one-item batch has succeeded with every copy made, and
\* both files are in place with the archive's content.
C4_Witness ==
    \E b \in Batches :
        /\ Len(items[b]) = 1 /\ outcome[b].sig = "finished" /\ solo[b]
        /\ skipped[b] = {}
        /\ \A f \in DOMAIN Catalog(items[b][1]) :
             PresentWith(dest, f, Catalog(items[b][1])[f])

\* C5 as stated: a batch works on the settings as they were at
\* start_processing: the root its run checks and writes to, and every
\* delete_after it reads, are those of the settings at submission.
C5_SettingsSnapshot ==
    \A b \in Batches :
        /\ pc[b] \notin {"idle", "start"} =>
             steam_path[b] = submitted[b].steam_path
        /\ \A i \in DOMAIN delReads[b] :
             delReads[b][i].read = submitted[b].delete_after

\* C6 as stated, for a batch that ran with no other batch running and
\* granting that a deletion may fail: when a run ends, the scratch directory
\* of every item it processed is gone (or its deletion raised) if the
\* batch's delete_after is set, and otherwise exists and holds the files of
\* the item's archive.
C6_ScratchAfterRun ==
    [][\A b \in Batches :
          (pc[b] # "done" /\ pc'[b] = "done" /\ solo[b]) =>
            \A i \in DOMAIN delReads'[b] :
              LET name == items[b][i]
                  dir == scratch'[ScratchDirOf(name)]
              IN IF submitted[b].delete_after
                 THEN ~dir.exists \/ delReads'[b][i].raised
                 ELSE /\ dir.exists
                      /\ \A f \in DOMAIN Catalog(name) :
                           /\ f \in DOMAIN dir.files
                           /\ dir.files[f] = Catalog(name)[f]]_vars

\* C7: the requests of a batch are those of its items in submitted order,
\* each item once; item i+1 is requested only after item i's cleanup step;
\* after a failure the run has ended with that failure as its outcome and
\* nothing past the failing item was requested or processed.
C7_SequentialInOrder ==
    \A b \in Batches :
        /\ Len(requested[b]) <= Len(items[b])
        /\ \A j \in DOMAIN requested[b] : requested[b][j] = <<j, items[b][j]>>
        /\ Len(requested[b]) <= Len(delReads[b]) + 1
        /\ outcome[b].sig = "error" =>
             /\ pc[b] = "done"
             /\ emitted[b].finished = 0
             /\ Len(requested[b]) = idx[b]
             /\ Len(delReads[b]) = IF idx[b] = 0 THEN 0 ELSE idx[b] - 1
             /\ DownloadRefused(b) <=> outcome[b].text = ERR_FAILED_DOWNLOAD

\* C7 witness: a two-item batch whose second item failed in extraction
\* after the first was processed.
C7_Witness ==
    \E b \in Batches :
        /\ Len(items[b]) = 2 /\ items[b][1] # items[b][2]
        /\ idx[b] = 2 /\ pc[b] = "done"
        /\ outcome[b].cause = "BadZipFile"
        /\ Len(delReads[b]) = 1

\* The outcome of b has been handed to on_worker_finished / on_worker_error.
Delivered(b) == shown[b] # ""

\* C8: a finished outcome is emitted only when every item has been through
\* all its steps, a batch makes no file-system change once it has emitted
\* its outcome, and the outcome is delivered only after the emit.
C8_EffectsBeforeOutcome ==
    [][\A b \in Batches :
          /\ Emits(b) >= 1 => fsWrites'[b] = fsWrites[b]
          /\ emitted'[b].finished >= 1 =>
               /\ Len(delReads'[b]) = Len(items'[b])
               /\ saved'[b] = 1..Len(items'[b])
          /\ Delivered(b)' => (Emits(b) >= 1 /\ pc[b] = "done")]_vars

\* C8 witness: the success of a two-item batch has been delivered.
C8_Witness ==
    \E b \in Batches :
        /\ Len(items[b]) = 2 /\ shown[b] = "Done!"
        /\ fsWrites[b] >= 6

\* The behaviours in which the settings dialog stays closed, under the
\* scheduling of the program: every worker thread keeps running and the main
\* thread's event loop keeps running the queued slots.
LiveNext ==
    \/ AddNow
    \/ AddToOrder
    \/ StartOrder
    \/ ProcessEvent
    \/ \E b \in Batches : WorkerStep(b)

LiveSpec ==
    /\ Init
    /\ [][LiveNext]_vars
    /\ WF_vars(ProcessEvent)
    /\ \A b \in Batches : WF_vars(WorkerStep(b))

\* C9: a worker is in workers from start_processing on and until its
\* outcome was emitted and handed to its handler; once its run has ended it
\* is eventually removed, it never comes back, and cleanup_worker on a
\* worker that is not in workers changes nothing.
C9_WorkerReleased ==
    /\ [](\A b \in Batches :
            /\ (pc[b] # "idle" /\ ~(Emits(b) >= 1 /\ Delivered(b)))
                  => b \in Range(workers)
            /\ b \notin Range(workers) =>
                  CleanupWorker(workers, b) = workers
            /\ Len(SelectSeq(workers, LAMBDA x : x = b)) <= 1)
    /\ [][\A b \in Batches :
            (pc[b] # "idle" /\ b \notin Range(workers))
               => b \notin Range(workers')]_vars
    /\ \A b \in Batches : (pc[b] = "done") ~> (b \notin Range(workers))

\* C9 witness: a failed and a succeeded batch have both been removed.
C9_Witness ==
    \E b, c \in Batches :
        /\ outcome[b].sig = "error" /\ outcome[c].sig = "finished"
        /\ Delivered(b) /\ Delivered(c)
        /\ workers = <<>>

\* Room is left under the bounds of the model for one more item / batch.
RoomForItem == TotalItems < MaxTotalItems
RoomForBatch == nextWorker <= MaxBatches

\* C10: while some batch is stuck in its request the main thread still
\* takes add_to_order, start_order and add_now, and every submitted batch
\* ends up stuck in a request of its own or with its outcome delivered.
C10_HungBatchStallsOnlyItself ==
    /\ []((\E h \in Batches : pc[h] = "hung") =>
            /\ RoomForItem => ENABLED AddToOrder
            /\ (RoomForItem /\ RoomForBatch) => ENABLED AddNow
            /\ (order = <<>> \/ RoomForBatch) => ENABLED StartOrder)
    /\ \A b \in Batches :
          (pc[b] # "idle") ~> (Delivered(b) \/ pc[b] = "hung")

\* C10 witness: one batch is stuck in its request, a batch submitted after
\* it has had its outcome delivered and its worker released.
C10_Witness ==
    \E h, b \in Batches :
        /\ pc[h] = "hung" /\ h < b
        /\ Delivered(b) /\ b \notin Range(workers)

\* ---------------------------------------------------------- overlay applier
\* Bound: times insert_online_fix runs in one behaviour.
MaxApplies == 2

ERR_NOT_UNITY ==
    "This is not a unity game! please go to https://online-fix.me/ for manual installation"
MSG_FIX_MISSING == "OnlineFix folder missing from Files folder"
MSG_DATA_MISSING == "OnlineFix/Data missing in Files/OnlineFix"
MSG_FIX_DONE == "Done! (Online-Fix applied)"
MSG_FIX_FAILED == "Online-Fix failed: "

\* Names of directory entries, as the sequence of their parts.
Marker == <<"UnityCrashHandler64.exe">>
DataName == <<"Data">>
GameData == <<"Game_", "Data">>
AddonData == <<"Addon", "Data">>
Plugins == <<"Plugins">>
Managed == <<"Managed">>
WinHttp == <<"winhttp", ".dll">>
FixDll == <<"fix", ".dll">>
OldDll == <<"old", ".dll">>

\* str.lower(), part by part.
Lower(part) ==
    CASE part = "Data" -> "data"
      [] part = "Game_" -> "game_"
      [] part = "Addon" -> "addon"
      [] part = "Plugins" -> "plugins"
      [] part = "Managed" -> "managed"
      [] part = "UnityCrashHandler64.exe" -> "unitycrashhandler64.exe"
      [] part = "A" -> "a"
      [] part = "B" -> "b"
      [] part = ".ZIP" -> ".zip"
      [] OTHER -> part
LowerName(name) == [i \in DOMAIN name |-> Lower(name[i])]

\* 'data' in name.lower()
ContainsData(name) == \E i \in DOMAIN name : LowerName(name)[i] = "data"
\* item.lower() == 'data'
IsReserved(item) == LowerName(item) = <<"data">>

\* os.path.exists / os.path.isdir / os.listdir on a tree.
PathExists(t, p) == t.exists /\ (p \in t.dirs \/ p \in DOMAIN t.files)
IsDir(t, p) == t.exists /\ p \in t.dirs
ListDir(t) == {p[1] : p \in t.dirs \cup DOMAIN t.files}

\* p is q or lies under q.
Under(p, q) == Len(q) <= Len(p) /\ SubSeq(p, 1, Len(q)) = q

\* os.path.exists(os.path.join(target, 'UnityCrashHandler64.exe')); and a
\* check that lets every folder pass.
HasMarkerAlways(t) == TRUE
HasMarker(t) == PathExists(t, <<Marker>>)

\* Lines 397-402: the directories of target whose name contains "data";
\* os.listdir returns the entries in arbitrary order, so the first match can
\* be any of them.
DataFolderCandidates(t) ==
    {<<n>> : n \in {m \in ListDir(t) : ContainsData(m) /\ IsDir(t, <<m>>)}}

\* Lines 410-411: exists(src_data) and isdir(src_data).
HasSrcData(src) == PathExists(src, <<DataName>>) /\ IsDir(src, <<DataName>>)

\* The top-level copy without the rmtree of line 422: the overlay's entries
\* are written over what target holds.
CopyTopLevelKeeping(t, src, its) ==
    LET newFiles == {p \in DOMAIN src.files : p[1] \in its}
    IN [exists |-> TRUE,
        dirs |-> t.dirs \cup {p \in src.dirs : p[1] \in its},
        files |-> [p \in (DOMAIN t.files) \cup newFiles |->
                     IF p \in newFiles THEN src.files[p] ELSE t.files[p]]]

\* Lines 415-425 for the top-level entries `its` of src: a directory
\* replaces the directory of the same name in target (rmtree, copytree), a
\* file is copied over the file of the same name.
CopyTopLevel(t, src, its) ==
    LET srcDirs == {n \in its : IsDir(src, <<n>>)}
        replaced(p) == \E n \in srcDirs : Under(p, <<n>>)
        keptFiles == {p \in DOMAIN t.files : ~replaced(p)}
        newFiles == {p \in DOMAIN src.files : p[1] \in its}
    IN [exists |-> TRUE,
        dirs |-> {p \in t.dirs : ~replaced(p)}
                   \cup {p \in src.dirs : p[1] \in srcDirs},
        files |-> [p \in keptFiles \cup newFiles |->
                     IF p \in newFiles THEN src.files[p] ELSE t.files[p]]]

\* The place in the data folder df of a path p under src/Data.
MergedPath(df, p) == df \o SubSeq(p, 2, Len(p))

\* Lines 426-436: every directory under src/Data is made under the data
\* folder df and every file is copied to the same relative path, except the
\* files in `failed`, whose copy2 raised.
MergeData(t, src, df, failed) ==
    LET dataDirs == {p \in src.dirs : Under(p, <<DataName>>)}
        dataFiles == {p \in DOMAIN src.files : Under(p, <<DataName>>)} \ failed
        merged == {MergedPath(df, p) : p \in dataFiles}
        origin(q) == CHOOSE p \in dataFiles : MergedPath(df, p) = q
    IN [exists |-> TRUE,
        dirs |-> t.dirs \cup {MergedPath(df, p) : p \in dataDirs},
        files |-> [q \in (DOMAIN t.files) \cup merged |->
                     IF q \in merged THEN src.files[origin(q)]
                     ELSE t.files[q]]]

\* The top-level entries of src that lines 415-425 copy.
TopLevelItems(src) == {n \in ListDir(src) : ~IsReserved(n)}

\* The files under src/Data.
DataFiles(src) == {p \in DOMAIN src.files : Under(p, <<DataName>>)}

\* insert_online_fix on the chosen folder (a cancelled dialog changes
\* nothing): the two checks of the target, the two checks of the overlay
\* source, then the copy; an exception of the top-level copy ends it with
\* part of the entries copied.
InsertOnlineFix ==
    /\ applies < MaxApplies
    /\ applies' = applies + 1
    /\ IF ~HasMarker(target) \/ DataFolderCandidates(target) = {}
       THEN /\ fixMsg' = ERR_NOT_UNITY
            /\ UNCHANGED <<target, data_folder, fixSkipped>>
       ELSE \E df \in DataFolderCandidates(target) :
              /\ data_folder' = df
              /\ IF ~fix_src.exists
                 THEN /\ fixMsg' = MSG_FIX_MISSING
                      /\ UNCHANGED <<target, fixSkipped>>
                 ELSE IF ~HasSrcData(fix_src)
                 THEN /\ fixMsg' = MSG_DATA_MISSING
                      /\ UNCHANGED <<target, fixSkipped>>
                 ELSE \/ \E failed \in SUBSET DataFiles(fix_src) :
                           /\ target' =
                                MergeData(CopyTopLevel(target, fix_src,
                                              TopLevelItems(fix_src)),
                                          fix_src, df, failed)
                           /\ fixSkipped' = failed
                           /\ fixMsg' = MSG_FIX_DONE
                      \/ \E part \in SUBSET TopLevelItems(fix_src) :
                           /\ part # TopLevelItems(fix_src)
                           /\ target' = CopyTopLevel(target, fix_src, part)
                           /\ fixMsg' = MSG_FIX_FAILED
                           /\ UNCHANGED fixSkipped
    /\ UNCHANGED <<fix_src, uiVars, workerVars, fsVars, postVars, catalogVars>>

\* The game folders and overlay sources the applier is run on: every
\* well-formed tree over a few paths.
TreeOf(dirs, fs) == [exists |-> TRUE, dirs |-> dirs, files |-> fs]

WellFormed(t) ==
    /\ t.dirs \cap DOMAIN t.files = {}
    /\ \A p \in t.dirs \cup DOMAIN t.files :
          Len(p) > 1 => SubSeq(p, 1, Len(p) - 1) \in t.dirs

\* The content of the overlay's file at path p.
SrcContent(p) ==
    CASE p = <<DataName, FixDll>> -> 2
      [] p = <<DataName, Managed, FixDll>> -> 3
      [] p = <<AddonData, FixDll>> -> 4
      [] p = <<Plugins, FixDll>> -> 5
      [] OTHER -> 1

TargetDirs == {<<GameData>>, <<AddonData>>, <<Plugins>>}
TargetFiles == {<<Marker>>, <<Plugins, OldDll>>, <<GameData, OldDll>>}
Targets ==
    {t \in {TreeOf(dirs, [p \in fs |-> 0]) :
              dirs \in SUBSET TargetDirs, fs \in SUBSET TargetFiles} :
       WellFormed(t)}

SourceDirs == {<<DataName>>, <<DataName, Managed>>, <<AddonData>>, <<Plugins>>}
SourceFiles ==
    {<<DataName>>, <<DataName, FixDll>>, <<DataName, Managed, FixDll>>,
     <<AddonData, FixDll>>, <<Plugins, FixDll>>, <<WinHttp>>}
Sources ==
    {NoTree} \cup
    {t \in {TreeOf(dirs, [p \in fs |-> SrcContent(p)]) :
              dirs \in SUBSET SourceDirs, fs \in SUBSET SourceFiles} :
       WellFormed(t)}

\* The applier on its own: any game folder, any overlay source.
FixInit ==
    /\ MainInit({NoSettings}, {TRUE}, {NoTrail})
    /\ CatalogLoaded
    /\ target \in Targets
    /\ fix_src \in Sources
    /\ fixMsg = ""
    /\ data_folder = <<>>
    /\ fixSkipped = {}
    /\ applies = 0

FixNext == InsertOnlineFix

FixSpec == FixInit /\ [][FixNext]_vars

\* The last run of insert_online_fix ended in this step.
Applied == applies' = applies + 1

\* C11: a run on a folder without the marker file or without a directory
\* whose name contains "data" shows the not-a-unity-game error; a run on a
\* supported folder with the overlay source or its Data directory missing
\* shows the matching missing-assets error; in all these cases the folder's
\* tree is left as it was.
C11_FailedPreconditionNoWrites ==
    [][Applied =>
         /\ (~PathExists(target, <<Marker>>)
               \/ ~\E n \in ListDir(target) :
                      ContainsData(n) /\ IsDir(target, <<n>>))
              => (fixMsg' = ERR_NOT_UNITY /\ target' = target)
         /\ (/\ PathExists(target, <<Marker>>)
             /\ \E n \in ListDir(target) :
                   ContainsData(n) /\ IsDir(target, <<n>>)
             /\ ~fix_src.exists)
              => (fixMsg' = MSG_FIX_MISSING /\ target' = target)
         /\ (/\ PathExists(target, <<Marker>>)
             /\ \E n \in ListDir(target) :
                   ContainsData(n) /\ IsDir(target, <<n>>)
             /\ fix_src.exists
             /\ ~IsDir(fix_src, <<DataName>>))
              => (fixMsg' = MSG_DATA_MISSING /\ target' = target)
         /\ fixMsg' \in {ERR_NOT_UNITY, MSG_FIX_MISSING, MSG_DATA_MISSING}
              => target' = target]_vars

\* C11 witness: a run on a supported folder holding files was refused
\* because the overlay's Data is a file, not a directory.
C11_Witness ==
    /\ applies >= 1
    /\ fixMsg = MSG_DATA_MISSING
    /\ PathExists(fix_src, <<DataName>>)
    /\ HasMarker(target)
    /\ PathExists(target, <<GameData, OldDll>>)

\* C12 as stated, granting copies that fail: when a run that succeeded with
\* every copy made is followed by another such run on the same folder with
\* the same overlay source, the folder's files (paths and contents) after
\* the second run are those after the first.
C12_ApplyIdempotent ==
    [][(/\ Applied
        /\ fixMsg = MSG_FIX_DONE /\ fixSkipped = {}
        /\ fixMsg' = MSG_FIX_DONE /\ fixSkipped' = {})
         => target'.files = target.files]_vars

\* The files (path -> content) and the directories of tree t under its
\* top-level entry n.
SubFiles(t, n) ==
    [p \in {q \in DOMAIN t.files : Under(q, <<n>>)} |-> t.files[p]]
SubDirs(t, n) == {q \in t.dirs : Under(q, <<n>>)}

\* A run of insert_online_fix ends in success in this step.
AppliedOk == Applied /\ fixMsg' = MSG_FIX_DONE

\* C13 as stated: after a successful run every top-level entry of the
\* overlay other than Data is in the folder, a file with the overlay's
\* content and a directory with exactly the overlay's subtree, and every
\* file under the overlay's Data is at the same relative path under the
\* data folder that was found.
C13_Original ==
    [][AppliedOk =>
         /\ \A n \in TopLevelItems(fix_src) :
              IF IsDir(fix_src, <<n>>)
              THEN /\ SubFiles(target', n) = SubFiles(fix_src, n)
                   /\ SubDirs(target', n) = SubDirs(fix_src, n)
              ELSE /\ <<n>> \in DOMAIN target'.files
                   /\ target'.files[<<n>>] = fix_src.files[<<n>>]
         /\ \A p \in DataFiles(fix_src) :
              MergedPath(data_folder', p) \in DOMAIN target'.files]_vars

\* The entries of the overlay's Data as they arrive under data folder df,
\* without the files whose copy failed.
MergedFiles(df, failed) ==
    LET ps == DataFiles(fix_src) \ failed
    IN [q \in {MergedPath(df, p) : p \in ps} |->
          fix_src.files[CHOOSE p \in ps : MergedPath(df, p) = q]]
MergedDirs(df) ==
    {MergedPath(df, p) : p \in {d \in fix_src.dirs : Under(d, <<DataName>>)}}

\* C13 as amended: the same, but a file under Data whose copy raised may be
\* missing, and a copied directory that is itself the data folder found
\* holds the overlay's subtree with the entries of Data merged over it.
C13_OverlayApplied ==
    [][AppliedOk =>
         /\ \A n \in TopLevelItems(fix_src) :
              IF IsDir(fix_src, <<n>>)
              THEN IF data_folder' = <<n>>
                   THEN /\ SubFiles(target', n) =
                             Overwrite(SubFiles(fix_src, n),
                                       MergedFiles(<<n>>, fixSkipped'))
                        /\ SubDirs(target', n) =
                             SubDirs(fix_src, n) \cup MergedDirs(<<n>>)
                   ELSE /\ SubFiles(target', n) = SubFiles(fix_src, n)
                        /\ SubDirs(target', n) = SubDirs(fix_src, n)
              ELSE /\ <<n>> \in DOMAIN target'.files
                   /\ target'.files[<<n>>] = fix_src.files[<<n>>]
         /\ \A p \in DataFiles(fix_src) :
              \/ p \in fixSkipped'
              \/ /\ MergedPath(data_folder', p) \in DOMAIN target'.files
                 /\ target'.files[MergedPath(data_folder', p)]
                      = fix_src.files[p]]_vars

\* C13 witness: a successful run with every copy made has replaced the
\* folder's Plugins directory by the overlay's and merged the overlay's
\* Data into Game_Data.
C13_Witness ==
    /\ fixMsg = MSG_FIX_DONE /\ fixSkipped = {}
    /\ data_folder = <<GameData>>
    /\ <<Plugins, FixDll>> \in DOMAIN target.files
    /\ <<Plugins, OldDll>> \notin DOMAIN target.files
    /\ <<GameData, OldDll>> \in DOMAIN target.files
    /\ <<GameData, Managed, FixDll>> \in DOMAIN target.files
    /\ <<WinHttp>> \in DOMAIN target.files

\* ------------------------------------------------ claims on the distribution
\* The causes of the errors that steps other than a file copy raise.
NonCopyCauses == {"ConnectionError", "FileNotFoundError", "BadZipFile",
                  "OSError"}

\* C14: a copy that fails in the distribution step leaves the outcome
\* alone and the run going: the step emits nothing and goes on to the
\* item's cleanup, after having copied the other files of the item; an
\* error outcome always comes from a step other than a copy; and a run that
\* took every item through all its steps ends in finished.
C14_CopyFailureSwallowed ==
    /\ [](\A b \in Batches :
            /\ outcome[b].sig = "error" =>
                 \/ outcome[b].text \in {ERR_INVALID_STEAM, ERR_FAILED_DOWNLOAD}
                 \/ outcome[b].cause \in NonCopyCauses
            /\ (pc[b] = "done" /\ items[b] # <<>>
                  /\ Len(delReads[b]) = Len(items[b]))
                 => outcome[b].sig = "finished")
    /\ [][\A b \in Batches :
            skipped'[b] # skipped[b] =>
              /\ pc[b] = "distribute" /\ pc'[b] = "cleanup"
              /\ emitted'[b] = emitted[b] /\ outcome'[b] = outcome[b]
              /\ LET dir == scratch[ScratchDirOf(items[b][idx[b]])]
                 IN \A f \in DOMAIN dir.files :
                      ((EndsWith(f, ".manifest") \/ EndsWith(f, ".lua"))
                         /\ f \notin skipped'[b])
                        => PresentWith(dest', f, dir.files[f])]_vars

\* C14 witness: a two-item batch has ended in finished although a copy of
\* its first item failed; the files of its second item are in place.
C14_Witness ==
    \E b \in Batches :
        /\ items[b] = <<NameA, NameB>>
        /\ outcome[b].sig = "finished"
        /\ skipped[b] = {<<"a", ".lua">>}
        /\ \A f \in DOMAIN Catalog(NameB) :
             PresentWith(dest, f, Catalog(NameB)[f])

\* C17: depotcache holds only files named *.manifest, stplug-in only files
\* named *.lua, no file name is in both, and a file of an archive with
\* another suffix is in neither.
C17_ClassifiedBySuffix ==
    /\ \A f \in DOMAIN dest.depotcache.files : EndsWith(f, ".manifest")
    /\ \A f \in DOMAIN dest.stplugin.files : EndsWith(f, ".lua")
    /\ (DOMAIN dest.depotcache.files) \cap (DOMAIN dest.stplugin.files) = {}
    /\ \A n \in Names : \A f \in DOMAIN Catalog(n) :
          (~EndsWith(f, ".manifest") /\ ~EndsWith(f, ".lua"))
            => /\ f \notin DOMAIN dest.depotcache.files
               /\ f \notin DOMAIN dest.stplugin.files

\* C17 witness: the archive holding readme.txt was distributed with every
\* copy made.
C17_Witness ==
    \E b \in Batches :
        /\ items[b] = <<NameA>> /\ outcome[b].sig = "finished"
        /\ skipped[b] = {}
        /\ <<"app", ".manifest">> \in DOMAIN dest.depotcache.files
        /\ <<"a", ".lua">> \in DOMAIN dest.stplugin.files

\* C18 as stated, granting a failure of os.makedirs and with every download
\* of every batch returning status 200 and an archive: a run on a valid
\* root ends in finished, whatever other batches run beside it.
C18_SuccessDespiteOthers ==
    \A b \in Batches :
        (/\ pc[b] = "done"
         /\ \A c \in Batches : valid[c]
         /\ RootIsValid(steam_path[b]))
          => (outcome[b].sig = "finished" \/ outcome[b].cause = "OSError")

\* ------------------------------------------------------ post-success effects
\* The behaviours in which the user sets the post-success options in the
\* settings dialog, with win10toast importable or not.
PostInit ==
    /\ MainInit(PostSettings, BOOLEAN, {NoTrail})
    /\ CatalogLoaded
    /\ OverlayIdle

PostNext ==
    \/ AddNow
    \/ AddToOrder
    \/ StartOrder
    \/ OpenSettingsPost
    \/ ProcessEvent
    \/ \E b \in Batches : WorkerStep(b)

PostSpec == PostInit /\ [][PostNext]_vars

\* C15: a toast, a taskkill or a relaunch is caused for a batch only by the
\* handling of its finished signal, the toast only with win_notify set and
\* the taskkill and relaunch only with restart_steam set at that moment; a
\* batch that ended in an error has caused none of them.
C15_PostEffectsOnlyOnSuccess ==
    /\ [](\A b \in Batches :
            (outcome[b].sig # "finished") => post[b] = NoPost)
    /\ [][\A b \in Batches :
            post'[b] # post[b] =>
              /\ outcome[b].sig = "finished" /\ emitted[b].error = 0
              /\ shown'[b] = "Done!"
              /\ post'[b].toast => settings_values.win_notify
              /\ (post'[b].kill \/ post'[b].launch)
                   => settings_values.restart_steam]_vars

\* C15 witness: with both options set, a success has caused the toast and
\* the restart, and a failure handled by on_worker_error has caused nothing.
C15_Witness ==
    \E b, c \in Batches :
        /\ post[b].toast /\ post[b].kill /\ post[b].launch
        /\ outcome[c].sig = "error" /\ Delivered(c) /\ post[c] = NoPost
        /\ settings_values.win_notify /\ settings_values.restart_steam
        /\ submitted[c].win_notify /\ submitted[c].restart_steam

\* ----------------------------------------------------------- catalog listing
\* Bound: entries in the catalog API's answer.
MaxListing == 3

\* The entry names the API can return.
Entries ==
    {<<"b", ".zip">>, <<"A", ".ZIP">>, <<"c", ".txt">>, <<"a", ".zip">>,
     <<"B", ".zip">>}

Listings == UNION {[1..n -> Entries] : n \in 0..MaxListing}

\* The order of strings, for the lower-case parts of the entry names.
Rank(part) ==
    CASE part = "a" -> 1
      [] part = "b" -> 2
      [] part = "c" -> 3
      [] part = ".txt" -> 4
      [] part = ".zip" -> 5
      [] OTHER -> 0

\* x.lower() < y.lower()
KeyLess(x, y) ==
    LET kx == LowerName(x)
        ky == LowerName(y)
    IN \/ Rank(kx[1]) < Rank(ky[1])
       \/ Rank(kx[1]) = Rank(ky[1]) /\ Rank(kx[2]) < Rank(ky[2])

\* list.sort(key=str.lower): a stable sort, entries of equal key keep their
\* order.  Insert puts x behind every entry whose key is not greater.
RECURSIVE Insert(_, _)
Insert(sorted, x) ==
    IF sorted = <<>> THEN <<x>>
    ELSE IF KeyLess(x, Head(sorted)) THEN <<x>> \o sorted
    ELSE <<Head(sorted)>> \o Insert(Tail(sorted), x)

RECURSIVE SortByLower(_)
SortByLower(seq) ==
    IF seq = <<>> THEN <<>>
    ELSE Insert(SortByLower(SubSeq(seq, 1, Len(seq) - 1)), seq[Len(seq)])

\* f['name'].endswith('.zip')
IsZipName(name) == EndsWith(name, ".zip")

\* Lines 286-287.
CatalogFiles(data) == SortByLower(SelectSeq(data, IsZipName))

\* fetch_files: the answer is filtered and sorted into files; a request
\* that fails shows the error and leaves files as it was.
FetchFiles ==
    /\ fetchMsg = ""
    /\ \/ /\ files' = CatalogFiles(listing)
          /\ fetchMsg' = "done"
       \/ /\ fetchMsg' = "error"
          /\ UNCHANGED files
    /\ UNCHANGED <<listing, uiVars, workerVars, fsVars, postVars, overlayVars>>

\* fetch_files on its own: any answer of the API.
FetchInit ==
    /\ MainInit({NoSettings}, {TRUE}, {NoTrail})
    /\ OverlayIdle
    /\ listing \in Listings
    /\ files = <<>>
    /\ fetchMsg = ""

FetchNext == FetchFiles

FetchSpec == FetchInit /\ [][FetchNext]_vars

\* The name ends in the archive extension, in either case.
IsArchiveName(name) == Lower(name[Len(name)]) = ".zip"

\* C16 as stated: after fetch_files the list holds exactly the entries whose
\* name ends in the archive extension (A.ZIP is one), in case-insensitive
\* order of name; ["b.zip", "A.ZIP", "c.txt"] gives ["A.ZIP", "b.zip"].
C16_ListingFilteredSorted ==
    fetchMsg = "done" =>
        /\ files = SortByLower(SelectSeq(listing, IsArchiveName))
        /\ listing = << <<"b", ".zip">>, <<"A", ".ZIP">>, <<"c", ".txt">> >>
             => files = << <<"A", ".ZIP">>, <<"b", ".zip">> >>

\* ---------------------------------------------------------------- the queue
\* The behaviours with the settings dialog closed, recording the use of
\* the queue.
QueueInit ==
    /\ MainInit(InstallSettings, {TRUE}, {NewTrail})
    /\ CatalogLoaded
    /\ OverlayIdle

QueueSpec == QueueInit /\ [][LiveNext]_vars

\* The items of the batches start_order submitted, in submission order.
RECURSIVE HandedUpTo(_)
HandedUpTo(b) ==
    IF b = 0 THEN <<>>
    ELSE HandedUpTo(b - 1)
           \o (IF trail.origin[b] = "start_order" THEN items[b] ELSE <<>>)
Handed == HandedUpTo(MaxBatches)

\* C19: the names add_to_order queued are, in the order of the calls and
\* each once, the items of the batches start_order submitted followed by
\* the queue; start_order submits the whole queue as one batch and leaves
\* it empty, and submits nothing on an empty queue; the items of a
\* submitted batch never change.
C19_QueueHandedOnce ==
    /\ [](/\ trail.queued = Handed \o order
          /\ \A b \in Batches :
               trail.origin[b] = "start_order" => items[b] # <<>>)
    /\ [][\A b \in Batches :
            /\ (trail.origin[b] # "start_order"
                  /\ trail'.origin[b] = "start_order")
                 => (order # <<>> /\ items'[b] = order /\ order' = <<>>)
            /\ pc[b] # "idle" => items'[b] = items[b]]_vars

\* C19 witness: a name queued after a start_order went into a second batch
\* of its own.
C19_Witness ==
    /\ trail.queued = <<NameB, NameA>>
    /\ trail.origin = [b \in Batches |-> "start_order"]
    /\ items[1] = <<NameB>> /\ items[2] = <<NameA>>
    /\ order = <<>>
    /\ pc[1] = "done"

\* -------------------------------------------------------------- the history
\* C20 as stated: once the success of a batch has been handled by
\* on_worker_finished (every batch is submitted with mark_added=True), each
\* of its item names is in DownloaderApp.added, and the state file holds
\* that list.
C20_HistoryRecordsInstalled ==
    \A b \in Batches :
        (outcome[b].sig = "finished" /\ Delivered(b)) =>
            /\ \A i \in DOMAIN items[b] :
                 \E j \in DOMAIN added : added[j] = items[b][i]
            /\ state_file.added = added

====
